---- MODULE Spec2Model ----
(***************************************************************************)
(* Model of src/moderation_service.py: the FastAPI handler                 *)
(* check_image_moderation (POST /api/v1/image/moderation), its module      *)
(* level configuration, and the asyncio event loop that runs the handler.  *)
(*                                                                         *)
(* Scores and thresholds are floats in the source; they are modelled in    *)
(* hundredths (0.75 is 75).  Label strings are modelled as sequences of    *)
(* one-character strings so that strip() and lower() are computed.         *)
(***************************************************************************)
EXTENDS Integers, Sequences, FiniteSets, TLC

\* ---------------------------------------------------------------- bounds
NumRequests == 2
MaxConcepts == 2
MaxDecideConcepts == 3

Requests == 1..NumRequests

\* ------------------------------------------------------- configuration
MAX_FILE_SIZE == 5 * 1024 * 1024

ALLOWED_MIMES == {"image/jpeg", "image/jpg", "image/png", "image/webp", "image/gif"}

BLOCKING_LABELS ==
  << <<"s","u","g","g","e","s","t","i","v","e">>,
     <<"g","o","r","e">>,
     <<"d","r","u","g","s">>,
     <<"h","a","t","e">>,
     <<"u","n","s","a","f","e">> >>

\* Values the environment may give the two thresholds (hundredths).
UnsafeThresholdValues == {0, 80}
BlockingThresholdValues == {75, 100}

\* HTTP status codes used by the handler
HTTP_200_OK == 200
HTTP_400_BAD_REQUEST == 400
HTTP_403_FORBIDDEN == 403
HTTP_413_REQUEST_ENTITY_TOO_LARGE == 413
HTTP_415_UNSUPPORTED_MEDIA_TYPE == 415
HTTP_500_INTERNAL_SERVER_ERROR == 500
HTTP_502_BAD_GATEWAY == 502
HTTP_503_SERVICE_UNAVAILABLE == 503

\* ------------------------------------------------------------- inputs
\* Python None for a score attribute, and a value float() cannot convert.
NoValue == -1
NonNumeric == -2

ContentTypes == {"image/png", "text/plain", ""}
Sizes == {0, MAX_FILE_SIZE, MAX_FILE_SIZE + 1}

\* An upload as the framework hands it to the handler: its declared content
\* type, whether reading its stream succeeds, the number of bytes in it, and
\* the value of the request's query parameter `threshold` (NoValue if the
\* request has none).
Uploads ==
  [content_type : ContentTypes, readable : {TRUE}, size : Sizes, threshold : {NoValue}]
  \cup [content_type : ContentTypes, readable : {FALSE}, size : {MAX_FILE_SIZE + 1},
        threshold : {NoValue}]

\* Uploads of a single request carrying the query parameter `threshold`:
\* absent, a value inside [0,1] and a value outside it.
QueryThresholds == {NoValue, 50, 150}
DecideUploads ==
  Uploads \cup [content_type : {"image/png"}, readable : {TRUE}, size : {MAX_FILE_SIZE},
                threshold : QueryThresholds]

\* Concepts the classifier may return.  name/id are the two label fields,
\* value/score the two score fields the handler probes.
ConceptInputs ==
  { [name |-> <<"g","o","r","e">>, id |-> <<>>, value |-> 50, score |-> NoValue],
    [name |-> <<" ","G","o","r","e">>, id |-> <<>>, value |-> 75, score |-> NoValue],
    [name |-> <<>>, id |-> <<"c","a","t">>, value |-> NoValue, score |-> 80],
    [name |-> <<>>, id |-> <<>>, value |-> NonNumeric, score |-> NoValue] }

RECURSIVE SeqsUpTo(_, _)
SeqsUpTo(S, n) ==
  IF n = 0 THEN { <<>> }
  ELSE LET shorter == SeqsUpTo(S, n - 1)
       IN  shorter \cup { Append(q, c) : q \in shorter, c \in S }

ConceptLists == SeqsUpTo(ConceptInputs, MaxConcepts)

\* A larger set of concepts, returned to a single request.
DecideConcepts ==
  ConceptInputs \cup
  { [name |-> <<"s","a","f","e">>, id |-> <<>>, value |-> 99, score |-> NoValue],
    [name |-> <<"S","u","g","g","e","s","t","i","v","e"," ">>, id |-> <<>>,
     value |-> 76, score |-> NoValue],
    [name |-> <<>>, id |-> <<>>, value |-> 76, score |-> NoValue],
    [name |-> <<" ">>, id |-> <<"h","a","t","e">>, value |-> 76, score |-> NoValue] }

DecideConceptLists == SeqsUpTo(DecideConcepts, MaxDecideConcepts)

\* What predict_by_bytes can return: a response without outputs (attribute
\* missing or None), with an empty outputs list, with an output whose
\* data/concepts cannot be reached, or with a list of concepts.
Responses ==
  { [shape |-> s, concepts |-> <<>>] : s \in {"no_outputs", "empty_outputs", "malformed"} }
  \cup { [shape |-> "concepts", concepts |-> cs] : cs \in ConceptLists }

DecideResponses ==
  Responses \cup { [shape |-> "concepts", concepts |-> cs] : cs \in DecideConceptLists }

NoResponse == [shape |-> "none", concepts |-> <<>>]
NoUpload == [content_type |-> "", readable |-> FALSE, size |-> 0, threshold |-> NoValue]

\* What predict_by_bytes can raise: the exception's class and its text.
ExceptionTypes == {"ClarifaiException", "Exception"}
ExceptionTexts == {"quota exceeded", "invalid key pat=SECRET"}
Exceptions == [type : ExceptionTypes, text : ExceptionTexts]
NoException == [type |-> "none", text |-> ""]
ReadErrorText == "stream closed"

\* -------------------------------------------------------------- state
VARIABLES
  clarifai_model,            \* TRUE when the module-level client was created
  UNSAFE_THRESHOLD,
  BLOCKING_LABEL_THRESHOLD,
  pc,                        \* per request: position in the handler
  image,                     \* per request: the upload
  image_bytes,               \* per request: len(image_bytes) once read
  reads,                     \* per request: number of image.read() calls
  closes,                    \* per request: number of image.close() calls
  calls,                     \* per request: number of predict_by_bytes calls
  response,                  \* per request: what predict_by_bytes returned
  raised,                    \* per request: what predict_by_bytes raised
  result,                    \* per request: the HTTP response
  loop_blocked               \* request whose synchronous call holds the event loop, 0 if none

vars == << clarifai_model, UNSAFE_THRESHOLD, BLOCKING_LABEL_THRESHOLD, pc, image,
           image_bytes, reads, closes, calls, response, raised, result, loop_blocked >>

config == << clarifai_model, UNSAFE_THRESHOLD, BLOCKING_LABEL_THRESHOLD >>

\* ------------------------------------------------------ pure functions
Whitespace == {" ", "\t", "\n", "\r"}

UpperCase == <<"A","B","C","D","E","F","G","H","I","J","K","L","M",
               "N","O","P","Q","R","S","T","U","V","W","X","Y","Z">>
LowerCase == <<"a","b","c","d","e","f","g","h","i","j","k","l","m",
               "n","o","p","q","r","s","t","u","v","w","x","y","z">>

\* str.lower() on one character
LowerChar(c) ==
  IF \E i \in 1..Len(UpperCase) : UpperCase[i] = c
  THEN LowerCase[CHOOSE i \in 1..Len(UpperCase) : UpperCase[i] = c]
  ELSE c

Lower(s) == [i \in 1..Len(s) |-> LowerChar(s[i])]

\* str.strip(): drop leading and trailing whitespace
RECURSIVE LStrip(_)
LStrip(s) ==
  IF s # <<>> /\ Head(s) \in Whitespace THEN LStrip(Tail(s)) ELSE s

RECURSIVE RStrip(_)
RStrip(s) ==
  IF s # <<>> /\ s[Len(s)] \in Whitespace THEN RStrip(SubSeq(s, 1, Len(s) - 1)) ELSE s

Strip(s) == RStrip(LStrip(s))

\* Variant: the label is lowercased but not stripped
normalize_label_name_NoStrip(name) ==
  IF name = <<>> THEN <<>> ELSE Lower(name)

normalize_label_name(name) ==
  IF name = <<>> THEN <<>> ELSE Lower(Strip(name))

InList(x, list) == \E i \in 1..Len(list) : list[i] = x

\* `getattr(concept, "name", "") or getattr(concept, "id", "")`
ConceptName(concept) ==
  IF concept.name # <<>> THEN concept.name ELSE concept.id

\* value, else score (default 0.0), then float() with 0.0 on failure
ConceptScore(concept) ==
  LET score == IF concept.value # NoValue THEN concept.value ELSE concept.score
  IN  IF score \in {NoValue, NonNumeric} THEN 0 ELSE score

\* Variant: the blocking-label comparison written with > instead of >=
BlockingHit_Strict(normalized, score) ==
  InList(normalized, BLOCKING_LABELS) /\ score > BLOCKING_LABEL_THRESHOLD

\* `normalized in BLOCKING_LABELS and score >= BLOCKING_LABEL_THRESHOLD`
BlockingHit(normalized, score) ==
  InList(normalized, BLOCKING_LABELS) /\ score >= BLOCKING_LABEL_THRESHOLD

\* `max_score >= UNSAFE_THRESHOLD`
GlobalHit(max_score) == max_score >= UNSAFE_THRESHOLD

\* Variant: max_score is overwritten by each score
LoopBody_LastScore(acc, concept) ==
  LET score == ConceptScore(concept)
      normalized == normalize_label_name(ConceptName(concept))
  IN  [unsafe_labels |-> Append(acc.unsafe_labels, [name |-> normalized, score |-> score]),
       max_score |-> score,
       is_unsafe |-> IF BlockingHit(normalized, score) THEN TRUE ELSE acc.is_unsafe]

\* One iteration of `for concept in concepts`
LoopBody(acc, concept) ==
  LET score == ConceptScore(concept)
      normalized == normalize_label_name(ConceptName(concept))
  IN  [unsafe_labels |-> Append(acc.unsafe_labels, [name |-> normalized, score |-> score]),
       max_score |-> IF score > acc.max_score THEN score ELSE acc.max_score,
       is_unsafe |-> IF BlockingHit(normalized, score) THEN TRUE ELSE acc.is_unsafe]

RECURSIVE DecisionLoop(_, _)
DecisionLoop(acc, concepts) ==
  IF concepts = <<>> THEN acc
  ELSE DecisionLoop(LoopBody(acc, Head(concepts)), Tail(concepts))

\* Step 4 of the handler: the loop, then the global threshold
Decide(concepts) ==
  LET acc == DecisionLoop([unsafe_labels |-> <<>>, max_score |-> 0, is_unsafe |-> FALSE],
                          concepts)
  IN  [acc EXCEPT !.is_unsafe = IF GlobalHit(acc.max_score) THEN TRUE ELSE acc.is_unsafe]

\* ----------------------------------------------------- HTTP responses
Pending ==
  [status_code |-> 0, keys |-> {}, detail |-> <<>>, message |-> "",
   is_unsafe |-> FALSE, unsafe_score |-> 0, unsafe_labels |-> <<>>]

\* `raise HTTPException(status_code=..., detail="...")`
HTTPException(status_code, detail) ==
  [Pending EXCEPT !.status_code = status_code, !.detail = detail]

\* `return {"is_unsafe": False, "message": ...}`
NoVerdict(message) ==
  [Pending EXCEPT !.status_code = HTTP_200_OK, !.keys = {"is_unsafe", "message"},
                  !.message = message]

\* Variant: the verdict is always returned as a 200 body
Respond_AlwaysReturn(verdict) ==
  [Pending EXCEPT !.status_code = HTTP_200_OK,
                  !.keys = {"is_unsafe", "unsafe_score", "unsafe_labels"},
                  !.is_unsafe = verdict.is_unsafe,
                  !.unsafe_score = verdict.max_score,
                  !.unsafe_labels = verdict.unsafe_labels]

\* Step 5 of the handler
Respond(verdict) ==
  IF verdict.is_unsafe
  THEN [Pending EXCEPT !.status_code = HTTP_403_FORBIDDEN,
                       !.keys = {"message", "unsafe_score", "unsafe_labels"},
                       !.message = "Image failed moderation check: Unsafe content detected.",
                       !.is_unsafe = TRUE,
                       !.unsafe_score = verdict.max_score,
                       !.unsafe_labels = verdict.unsafe_labels]
  ELSE [Pending EXCEPT !.status_code = HTTP_200_OK,
                       !.keys = {"is_unsafe", "unsafe_score", "unsafe_labels"},
                       !.unsafe_score = verdict.max_score,
                       !.unsafe_labels = verdict.unsafe_labels]

\* Variant: a response that cannot be parsed is raised as an internal error
HandleResponse_ParseError(resp) ==
  IF resp.shape \in {"no_outputs", "empty_outputs"}
  THEN NoVerdict("Clarifai response was invalid.")
  ELSE IF resp.shape = "malformed"
  THEN HTTPException(HTTP_500_INTERNAL_SERVER_ERROR,
                     <<"Internal server error while processing image.">>)
  ELSE Respond(Decide(resp.concepts))

\* Steps 3 to 5: what the handler answers once predict_by_bytes returned
HandleResponse(resp) ==
  IF resp.shape \in {"no_outputs", "empty_outputs"}
  THEN NoVerdict("Clarifai response was invalid.")
  ELSE IF resp.shape = "malformed"
  THEN NoVerdict("Clarifai response parsing failed.")
  ELSE Respond(Decide(resp.concepts))

\* Variant: a single broad except clause
HandleException_Broad(exc) ==
  HTTPException(HTTP_500_INTERNAL_SERVER_ERROR,
                <<"Internal server error while processing image.">>)

\* Variant: the exception text is put into the detail
HandleException_Leaky(exc) ==
  IF exc.type = "ClarifaiException"
  THEN HTTPException(HTTP_502_BAD_GATEWAY,
                     <<"Error calling Clarifai moderation service: ", exc.text>>)
  ELSE HTTPException(HTTP_500_INTERNAL_SERVER_ERROR,
                     <<"Internal server error while processing image: ", exc.text>>)

\* The except clauses around predict_by_bytes
HandleException(exc) ==
  IF exc.type = "ClarifaiException"
  THEN HTTPException(HTTP_502_BAD_GATEWAY, <<"Error calling Clarifai moderation service.">>)
  ELSE HTTPException(HTTP_500_INTERNAL_SERVER_ERROR,
                     <<"Internal server error while processing image.">>)

\* ------------------------------------------------------------ guards
\* Variant: the readiness check is missing
ModelNotReady_Unchecked == FALSE

\* `if not clarifai_model`
ModelNotReady == ~clarifai_model

\* `content_type = image.content_type or ""`, a missing type being ""
ContentTypeAllowed(content_type) == content_type \in ALLOWED_MIMES

\* Variant: the empty-file check is missing
IsEmpty_Unchecked(n) == FALSE

\* `len(image_bytes) == 0`
IsEmpty(n) == n = 0

\* Variant: the size limit is exclusive
TooLarge_AtLimit(n) == n >= MAX_FILE_SIZE

\* `len(image_bytes) > MAX_FILE_SIZE`
TooLarge(n) == n > MAX_FILE_SIZE

\* ------------------------------------------------------------- Init
Init ==
  /\ clarifai_model \in BOOLEAN
  /\ UNSAFE_THRESHOLD \in UnsafeThresholdValues
  /\ BLOCKING_LABEL_THRESHOLD \in BlockingThresholdValues
  /\ pc = [r \in Requests |-> "idle"]
  /\ image = [r \in Requests |-> NoUpload]
  /\ image_bytes = [r \in Requests |-> 0]
  /\ reads = [r \in Requests |-> 0]
  /\ closes = [r \in Requests |-> 0]
  /\ calls = [r \in Requests |-> 0]
  /\ response = [r \in Requests |-> NoResponse]
  /\ raised = [r \in Requests |-> NoException]
  /\ result = [r \in Requests |-> Pending]
  /\ loop_blocked = 0

\* ----------------------------------------------------------- actions
\* Every step of a handler runs on the one event-loop thread, so it needs
\* that thread not to be inside another request's synchronous call.
LoopFree == loop_blocked = 0

\* The framework dispatches an upload to the handler.
Receive(r, upload) ==
  /\ LoopFree
  /\ pc[r] = "idle"
  /\ pc' = [pc EXCEPT ![r] = "received"]
  /\ image' = [image EXCEPT ![r] = upload]
  /\ UNCHANGED << config, image_bytes, reads, closes, calls, response, raised, result,
                  loop_blocked >>

\* Step 0: the client was never created.
RejectNotReady(r) ==
  /\ LoopFree
  /\ pc[r] = "received"
  /\ ModelNotReady
  /\ result' = [result EXCEPT ![r] =
        HTTPException(HTTP_503_SERVICE_UNAVAILABLE,
          <<"Moderation service is inactive. CLARIFAI_API_KEY may be missing or invalid.">>)]
  /\ pc' = [pc EXCEPT ![r] = "done"]
  /\ UNCHANGED << config, image, image_bytes, reads, closes, calls, response, raised,
                  loop_blocked >>

\* Step 1: the declared content type is not in the allow-list.
RejectContentType(r) ==
  /\ LoopFree
  /\ pc[r] = "received"
  /\ ~ModelNotReady
  /\ ~ContentTypeAllowed(image[r].content_type)
  /\ closes' = [closes EXCEPT ![r] = @ + 1]
  /\ result' = [result EXCEPT ![r] =
        HTTPException(HTTP_415_UNSUPPORTED_MEDIA_TYPE,
          <<"Unsupported media type: ", image[r].content_type>>)]
  /\ pc' = [pc EXCEPT ![r] = "done"]
  /\ UNCHANGED << config, image, image_bytes, reads, calls, response, raised, loop_blocked >>

\* `await image.read()` raises.
ReadFails(r) ==
  /\ LoopFree
  /\ pc[r] = "received"
  /\ ~ModelNotReady
  /\ ContentTypeAllowed(image[r].content_type)
  /\ ~image[r].readable
  /\ reads' = [reads EXCEPT ![r] = @ + 1]
  /\ closes' = [closes EXCEPT ![r] = @ + 1]
  /\ result' = [result EXCEPT ![r] =
        HTTPException(HTTP_400_BAD_REQUEST, <<"Cannot read uploaded file: ", ReadErrorText>>)]
  /\ pc' = [pc EXCEPT ![r] = "done"]
  /\ UNCHANGED << config, image, image_bytes, calls, response, raised, loop_blocked >>

\* `await image.read()` returns the bytes; the handler is suspended at
\* `await image.close()`.
ReadSucceeds(r) ==
  /\ LoopFree
  /\ pc[r] = "received"
  /\ ~ModelNotReady
  /\ ContentTypeAllowed(image[r].content_type)
  /\ image[r].readable
  /\ reads' = [reads EXCEPT ![r] = @ + 1]
  /\ image_bytes' = [image_bytes EXCEPT ![r] = image[r].size]
  /\ pc' = [pc EXCEPT ![r] = "read"]
  /\ UNCHANGED << config, image, closes, calls, response, raised, result, loop_blocked >>

\* `await image.close()` completes and the length checks fail.
RejectSize(r) ==
  /\ LoopFree
  /\ pc[r] = "read"
  /\ IsEmpty(image_bytes[r]) \/ TooLarge(image_bytes[r])
  /\ closes' = [closes EXCEPT ![r] = @ + 1]
  /\ result' = [result EXCEPT ![r] =
        IF IsEmpty(image_bytes[r])
        THEN HTTPException(HTTP_400_BAD_REQUEST, <<"Empty file uploaded.">>)
        ELSE HTTPException(HTTP_413_REQUEST_ENTITY_TOO_LARGE,
               <<"File is too large. Max allowed size is ", "5242880", " bytes.">>)]
  /\ pc' = [pc EXCEPT ![r] = "done"]
  /\ UNCHANGED << config, image, image_bytes, reads, calls, response, raised, loop_blocked >>

\* `await image.close()` completes, the length checks pass, and the handler
\* enters predict_by_bytes: a synchronous call made from the coroutine, so
\* the event-loop thread stays inside it until it returns or raises.
CallClassifier(r) ==
  /\ LoopFree
  /\ pc[r] = "read"
  /\ ~IsEmpty(image_bytes[r])
  /\ ~TooLarge(image_bytes[r])
  /\ closes' = [closes EXCEPT ![r] = @ + 1]
  /\ calls' = [calls EXCEPT ![r] = @ + 1]
  /\ loop_blocked' = r
  /\ pc' = [pc EXCEPT ![r] = "calling"]
  /\ UNCHANGED << config, image, image_bytes, reads, response, raised, result >>

\* Variant: the call is attempted again after a failure
ClassifierRaises_Retry(r, exc) ==
  /\ pc[r] = "calling"
  /\ loop_blocked = r
  /\ raised' = [raised EXCEPT ![r] = exc]
  /\ calls' = [calls EXCEPT ![r] = @ + 1]
  /\ UNCHANGED << config, image, image_bytes, reads, closes, response, result, pc,
                  loop_blocked >>

\* predict_by_bytes raises.
ClassifierRaises(r, exc) ==
  /\ pc[r] = "calling"
  /\ loop_blocked = r
  /\ raised' = [raised EXCEPT ![r] = exc]
  /\ result' = [result EXCEPT ![r] = HandleException(exc)]
  /\ loop_blocked' = 0
  /\ pc' = [pc EXCEPT ![r] = "done"]
  /\ UNCHANGED << config, image, image_bytes, reads, closes, calls, response >>

\* predict_by_bytes returns; steps 3 to 5 run without suspending.
ClassifierReturns(r, resp) ==
  /\ pc[r] = "calling"
  /\ loop_blocked = r
  /\ response' = [response EXCEPT ![r] = resp]
  /\ result' = [result EXCEPT ![r] = HandleResponse(resp)]
  /\ loop_blocked' = 0
  /\ pc' = [pc EXCEPT ![r] = "done"]
  /\ UNCHANGED << config, image, image_bytes, reads, closes, calls, raised >>

\* The steps the handler of request r takes by itself.
HandlerStep(r) ==
  \/ RejectNotReady(r)
  \/ RejectContentType(r)
  \/ ReadFails(r)
  \/ ReadSucceeds(r)
  \/ RejectSize(r)
  \/ CallClassifier(r)

Next ==
  \E r \in Requests :
    \/ \E upload \in Uploads : Receive(r, upload)
    \/ RejectNotReady(r)
    \/ RejectContentType(r)
    \/ ReadFails(r)
    \/ ReadSucceeds(r)
    \/ RejectSize(r)
    \/ CallClassifier(r)
    \/ \E exc \in Exceptions : ClassifierRaises(r, exc)
    \/ \E resp \in Responses : ClassifierReturns(r, resp)

Spec == Init /\ [][Next]_vars

\* One request served alone, with the larger input sets.
NextDecide ==
  \/ \E upload \in DecideUploads : Receive(1, upload)
  \/ RejectNotReady(1)
  \/ RejectContentType(1)
  \/ ReadFails(1)
  \/ ReadSucceeds(1)
  \/ RejectSize(1)
  \/ CallClassifier(1)
  \/ \E exc \in Exceptions : ClassifierRaises(1, exc)
  \/ \E resp \in DecideResponses : ClassifierReturns(1, resp)

DecideSpec == Init /\ [][NextDecide]_vars

\* The event loop keeps running every handler that is able to run.  Nothing
\* obliges the remote classifier to answer: predict_by_bytes is called with
\* no timeout, so its return or exception carries no fairness.
FairSpec == Spec /\ \A r \in Requests : WF_vars(HandlerStep(r))

TypeOK ==
  /\ clarifai_model \in BOOLEAN
  /\ pc \in [Requests -> {"idle", "received", "read", "calling", "done"}]
  /\ loop_blocked \in Requests \cup {0}
  /\ \A r \in Requests : reads[r] \in 0..1 /\ closes[r] \in 0..2 /\ calls[r] \in 0..2

\* ------------------------------------------------------- properties
Done(r) == pc[r] = "done"
Status(r) == result[r].status_code

\* C1: while the classifier handle is not initialized, no request reads its
\* upload or calls the classifier, and every finished request carries 503,
\* whatever its content type, readability or size.
C1_NotReadyAlways503 ==
  ~clarifai_model =>
    \A r \in Requests :
      /\ reads[r] = 0
      /\ calls[r] = 0
      /\ Done(r) => Status(r) = HTTP_503_SERVICE_UNAVAILABLE

\* A well-formed upload answered with 503 because the handle is missing.
C1_Witness ==
  /\ ~clarifai_model
  /\ \E r \in Requests :
       /\ Done(r)
       /\ Status(r) = HTTP_503_SERVICE_UNAVAILABLE
       /\ image[r].content_type = "image/png"
       /\ image[r].readable
       /\ image[r].size = MAX_FILE_SIZE

\* C2: a request has called predict_by_bytes only if the handle is ready, its
\* content type is in the allow-list, its upload was read successfully and
\* the number of bytes read is > 0 and <= MAX_FILE_SIZE.
C2_CallOnlyAfterValidation ==
  \A r \in Requests :
    calls[r] > 0 =>
      /\ clarifai_model
      /\ image[r].content_type \in ALLOWED_MIMES
      /\ image[r].readable
      /\ reads[r] = 1
      /\ image_bytes[r] = image[r].size
      /\ image_bytes[r] > 0
      /\ image_bytes[r] <= 5 * 1024 * 1024

\* A request is inside the remote call.
C2_Witness ==
  \E r \in Requests : pc[r] = "calling" /\ calls[r] = 1

\* The first rule of section 4.2 an upload fails, or "Valid".
FirstFailingRule(upload) ==
  IF upload.content_type \notin ALLOWED_MIMES THEN "UnsupportedMediaType"
  ELSE IF ~upload.readable THEN "ReadFailed"
  ELSE IF upload.size = 0 THEN "EmptyFile"
  ELSE IF upload.size > 5 * 1024 * 1024 THEN "TooLarge"
  ELSE "Valid"

\* C3: with the handle ready, a request that got past validation or finished
\* has the outcome of the first rule its upload fails, in the order content
\* type, read, empty, size; an upload failing none (exactly MAX_FILE_SIZE
\* bytes included) reaches the classifier call.
C3_FirstFailingRuleWins ==
  \A r \in Requests :
    (clarifai_model /\ pc[r] \in {"calling", "done"}) =>
      LET rule == FirstFailingRule(image[r]) IN
      /\ rule = "UnsupportedMediaType" =>
            Status(r) = HTTP_415_UNSUPPORTED_MEDIA_TYPE /\ reads[r] = 0
      /\ rule = "ReadFailed" =>
            /\ Status(r) = HTTP_400_BAD_REQUEST
            /\ result[r].detail[1] = "Cannot read uploaded file: "
      /\ rule = "EmptyFile" =>
            /\ Status(r) = HTTP_400_BAD_REQUEST
            /\ result[r].detail = <<"Empty file uploaded.">>
      /\ rule = "TooLarge" => Status(r) = HTTP_413_REQUEST_ENTITY_TOO_LARGE
      /\ rule = "Valid" =>
            /\ calls[r] = 1
            /\ Status(r) \notin {HTTP_415_UNSUPPORTED_MEDIA_TYPE, HTTP_400_BAD_REQUEST,
                                  HTTP_413_REQUEST_ENTITY_TOO_LARGE}

\* One request with a disallowed type and an unreadable, oversized body got
\* 415; another of exactly MAX_FILE_SIZE bytes reached the classifier call.
C3_Witness ==
  /\ clarifai_model
  /\ \E r \in Requests :
       /\ Done(r)
       /\ image[r].content_type = "text/plain"
       /\ ~image[r].readable
       /\ image[r].size > MAX_FILE_SIZE
       /\ Status(r) = HTTP_415_UNSUPPORTED_MEDIA_TYPE
  /\ \E r \in Requests :
       /\ image[r].size = MAX_FILE_SIZE
       /\ calls[r] = 1

\* The decision of section 4.4 stated over the concept list as a whole.
\* Every concept is a candidate: the handler has no safe-label exclusion.
CandidateScores(concepts) == { ConceptScore(concepts[i]) : i \in 1..Len(concepts) }

MaxCandidateScore(concepts) ==
  IF concepts = <<>> THEN 0
  ELSE CHOOSE m \in CandidateScores(concepts) : \A x \in CandidateScores(concepts) : x <= m

SomeBlockingLabelOver(concepts, threshold) ==
  \E i \in 1..Len(concepts) :
    /\ \E j \in 1..Len(BLOCKING_LABELS) :
         BLOCKING_LABELS[j] = normalize_label_name(ConceptName(concepts[i]))
    /\ ConceptScore(concepts[i]) >= threshold

Decided(r) == Done(r) /\ response[r].shape = "concepts"

\* C4: for every request that was decided, the response says unsafe exactly
\* when the maximum candidate score is >= the global threshold or some
\* concept with a blocking label has a score >= the blocking-label threshold.
C4_UnsafeIffThresholdReached ==
  \A r \in Requests :
    Decided(r) =>
      (result[r].is_unsafe <=>
         \/ MaxCandidateScore(response[r].concepts) >= UNSAFE_THRESHOLD
         \/ SomeBlockingLabelOver(response[r].concepts, BLOCKING_LABEL_THRESHOLD))

\* A blocking label scored exactly at the blocking-label threshold, below the
\* global threshold, was judged unsafe.
C4_Witness ==
  \E r \in Requests :
    /\ Decided(r)
    /\ response[r].concepts # <<>>
    /\ MaxCandidateScore(response[r].concepts) = BLOCKING_LABEL_THRESHOLD
    /\ MaxCandidateScore(response[r].concepts) < UNSAFE_THRESHOLD
    /\ result[r].is_unsafe

\* C5: a decided request is answered 403 with message, unsafe_score and
\* unsafe_labels exactly when its verdict is unsafe, and otherwise 200 with
\* is_unsafe false; an unsafe verdict is never answered 200.
C5_BlockedIffUnsafe ==
  \A r \in Requests :
    Decided(r) =>
      LET verdict == Decide(response[r].concepts) IN
      /\ verdict.is_unsafe <=>
            /\ Status(r) = HTTP_403_FORBIDDEN
            /\ result[r].keys = {"message", "unsafe_score", "unsafe_labels"}
            /\ result[r].unsafe_score = verdict.max_score
            /\ result[r].unsafe_labels = verdict.unsafe_labels
      /\ ~verdict.is_unsafe <=>
            /\ Status(r) = HTTP_200_OK
            /\ "is_unsafe" \in result[r].keys
            /\ ~result[r].is_unsafe
      /\ verdict.is_unsafe => Status(r) # HTTP_200_OK

\* One request was blocked with 403 and another passed with 200.
C5_Witness ==
  /\ \E r \in Requests : Decided(r) /\ Status(r) = HTTP_403_FORBIDDEN
  /\ \E r \in Requests :
       Decided(r) /\ Status(r) = HTTP_200_OK /\ response[r].concepts # <<>>

\* C6: a returned response with zero outputs or zero concepts is answered
\* 200 with is_unsafe false and an explanatory note.
C6_EmptyResponseIsSafeWithNote ==
  \A r \in Requests :
    (/\ Done(r)
     /\ \/ response[r].shape \in {"no_outputs", "empty_outputs"}
        \/ response[r].shape = "concepts" /\ response[r].concepts = <<>>)
    => /\ Status(r) = HTTP_200_OK
       /\ ~result[r].is_unsafe
       /\ "message" \in result[r].keys
       /\ result[r].message # ""

\* C7: a ClarifaiException from the call ends the request with 502, any other
\* exception with 500, and neither with a verdict.
C7_ExceptionClassified ==
  \A r \in Requests :
    /\ raised[r].type = "ClarifaiException" => Done(r) /\ Status(r) = HTTP_502_BAD_GATEWAY
    /\ raised[r].type = "Exception" => Done(r) /\ Status(r) = HTTP_500_INTERNAL_SERVER_ERROR
    /\ raised[r].type # "none" =>
          /\ Status(r) \notin {HTTP_200_OK, HTTP_403_FORBIDDEN}
          /\ result[r].keys = {}

\* One request failed with a provider error and another with a different one.
C7_Witness ==
  /\ \E r \in Requests : raised[r].type = "ClarifaiException" /\ Status(r) = 502
  /\ \E r \in Requests : raised[r].type = "Exception" /\ Status(r) = 500

\* C8: no request calls the classifier more than once, and a request whose
\* call raised is finished with exactly one call made.
C8_SingleAttempt ==
  \A r \in Requests :
    /\ calls[r] <= 1
    /\ raised[r].type # "none" => Done(r) /\ calls[r] = 1

\* A request whose only call failed has finished.
C8_Witness ==
  \E r \in Requests :
    raised[r].type # "none" /\ Done(r) /\ calls[r] = 1 /\ Status(r) \in {500, 502}

\* C9: every finished request has closed its upload exactly once.
C9_ClosedExactlyOnce ==
  \A r \in Requests : Done(r) => closes[r] = 1

\* C10: while one request is inside the classifier call, every other
\* unfinished request can still take its next step.
C10_OthersCanProgress ==
  \A r \in Requests : \A s \in Requests \ {r} :
    (pc[r] = "calling" /\ pc[s] \in {"received", "read"}) => ENABLED HandlerStep(s)

\* C11: every received request eventually reaches a terminal state, even
\* when the remote classifier never answers.
C11_EveryRequestTerminates ==
  \A r \in Requests : (pc[r] = "received") ~> Done(r)

\* The designated safe label of section 4.4, and the candidates left once
\* the concepts carrying it are excluded.
SafeLabel == <<"s","a","f","e">>

IsSafeConcept(concept) == normalize_label_name(ConceptName(concept)) = SafeLabel

NonSafeCandidates(concepts) == SelectSeq(concepts, LAMBDA c : ~IsSafeConcept(c))

\* C12: concepts labelled "safe" are excluded from the candidates, so the
\* reported maximum score and the verdict are those of the other concepts:
\* [("safe", 0.99), ("gore", 0.5)] with global threshold 0.8 gives
\* maxScore = 0.5 and a safe verdict.
C12_SafeLabelExcluded ==
  \A r \in Requests :
    Decided(r) =>
      LET candidates == NonSafeCandidates(response[r].concepts) IN
      /\ result[r].unsafe_score = MaxCandidateScore(candidates)
      /\ result[r].is_unsafe <=>
            \/ MaxCandidateScore(candidates) >= UNSAFE_THRESHOLD
            \/ SomeBlockingLabelOver(candidates, BLOCKING_LABEL_THRESHOLD)

\* The effective threshold of section 4.4 step 4.
EffectiveThreshold(r) ==
  IF image[r].threshold \in 0..100 THEN image[r].threshold ELSE UNSAFE_THRESHOLD

\* C13: the global threshold applied to a request is its query parameter
\* `threshold` when that is given and lies in [0,1], and the configured
\* global threshold otherwise.
C13_OverrideApplied ==
  \A r \in Requests :
    Decided(r) =>
      (result[r].is_unsafe <=>
         \/ MaxCandidateScore(response[r].concepts) >= EffectiveThreshold(r)
         \/ SomeBlockingLabelOver(response[r].concepts, BLOCKING_LABEL_THRESHOLD))

\* C14: two requests whose classifier calls raised exceptions of the same
\* class receive the same status code and the same body whatever the texts
\* of the exceptions, and the body holds one fixed description only.
C14_ErrorTextNotLeaked ==
  \A r1 \in Requests : \A r2 \in Requests :
    (raised[r1].type # "none" /\ raised[r1].type = raised[r2].type) =>
      /\ result[r1] = result[r2]
      /\ Len(result[r1].detail) = 1
      /\ \A i \in 1..Len(result[r1].detail) : result[r1].detail[i] \notin ExceptionTexts

\* Two requests failed with the same class of exception and different texts.
C14_Witness ==
  \E r1 \in Requests : \E r2 \in Requests :
    /\ Done(r1) /\ Done(r2)
    /\ raised[r1].type = "ClarifaiException"
    /\ raised[r2].type = "ClarifaiException"
    /\ raised[r1].text # raised[r2].text

\* C15: whatever the thresholds, an empty concept list is decided safe with
\* maxScore 0.0 and no flagged labels, and for a non-empty list maxScore is
\* the maximum candidate score, within [0,1].
C15_EmptyListSafeAndMaxBounded ==
  \A r \in Requests :
    Decided(r) =>
      /\ response[r].concepts = <<>> =>
            /\ ~result[r].is_unsafe
            /\ result[r].unsafe_score = 0
            /\ result[r].unsafe_labels = <<>>
      /\ response[r].concepts # <<>> =>
            /\ result[r].unsafe_score = MaxCandidateScore(response[r].concepts)
            /\ result[r].unsafe_score \in 0..100

\* The concepts of a list that reach the threshold applying to them, as
\* (normalized label, score) pairs in the order of the list.
IsFlagged(concept) ==
  \/ ConceptScore(concept) >= UNSAFE_THRESHOLD
  \/ SomeBlockingLabelOver(<<concept>>, BLOCKING_LABEL_THRESHOLD)

FlaggedLabels(concepts) ==
  LET flagged == SelectSeq(concepts, IsFlagged)
  IN  [i \in 1..Len(flagged) |->
         [name |-> normalize_label_name(ConceptName(flagged[i])),
          score |-> ConceptScore(flagged[i])]]

\* C16: unsafe_labels holds exactly the concepts whose score reaches the
\* threshold that flags them, in the classifier's order, and is empty
\* whenever the verdict is safe.
C16_OnlyFlaggedLabelsListed ==
  \A r \in Requests :
    Decided(r) =>
      /\ result[r].unsafe_labels = FlaggedLabels(response[r].concepts)
      /\ ~result[r].is_unsafe => result[r].unsafe_labels = <<>>

IsVariantOf(raw, label) ==
  \E first \in 1..Len(raw) :
    LET last == first + Len(label) - 1 IN
    /\ last <= Len(raw)
    /\ \A k \in 1..Len(raw) : (k < first \/ k > last) => raw[k] \in Whitespace
    /\ \A k \in 1..Len(label) :
         \/ raw[first + k - 1] = label[k]
         \/ \E j \in 1..Len(LowerCase) :
              LowerCase[j] = label[k] /\ UpperCase[j] = raw[first + k - 1]

IsBlockingVariant(raw) ==
  \E j \in 1..Len(BLOCKING_LABELS) : IsVariantOf(raw, BLOCKING_LABELS[j])

\* C18: a concept whose label is a case or whitespace variant of a blocking
\* label, with a score >= the blocking-label threshold, makes the verdict
\* unsafe and is reported under the blocking label itself ("Suggestive " at
\* 0.76 with thresholds 0.75 and 0.8 included); an empty or absent label is
\* reported as the empty string and never blocks below the global threshold.
C18_BlockingOnNormalizedLabel ==
  \A r \in Requests :
    Decided(r) =>
      LET concepts == response[r].concepts IN
      /\ \A i \in 1..Len(concepts) :
           LET raw == ConceptName(concepts[i]) IN
           /\ \A j \in 1..Len(BLOCKING_LABELS) :
                IsVariantOf(raw, BLOCKING_LABELS[j]) =>
                  /\ result[r].unsafe_labels[i].name = BLOCKING_LABELS[j]
                  /\ ConceptScore(concepts[i]) >= BLOCKING_LABEL_THRESHOLD
                       => result[r].is_unsafe
           /\ raw = <<>> => result[r].unsafe_labels[i].name = <<>>
      /\ (/\ \A i \in 1..Len(concepts) :
               IsBlockingVariant(ConceptName(concepts[i]))
                 => ConceptScore(concepts[i]) < BLOCKING_LABEL_THRESHOLD
          /\ MaxCandidateScore(concepts) < UNSAFE_THRESHOLD)
         => ~result[r].is_unsafe

\* "Suggestive " at 0.76 was judged unsafe with thresholds 0.75 and 0.8.
C18_Witness ==
  \E r \in Requests :
    /\ Decided(r)
    /\ Len(response[r].concepts) = 1
    /\ ConceptName(response[r].concepts[1]) =
         <<"S","u","g","g","e","s","t","i","v","e"," ">>
    /\ ConceptScore(response[r].concepts[1]) = 76
    /\ BLOCKING_LABEL_THRESHOLD = 75
    /\ UNSAFE_THRESHOLD = 80
    /\ result[r].is_unsafe

\* Every reordering of a concept list.
Reorderings(concepts) ==
  { [i \in 1..Len(concepts) |-> concepts[p[i]]] : p \in Permutations(1..Len(concepts)) }

\* C19: deciding any reordering of the concepts a request received gives
\* the is_unsafe and the max_score the request was answered with.
C19_OrderIndependent ==
  \A r \in Requests :
    Decided(r) =>
      \A permuted \in Reorderings(response[r].concepts) :
        /\ Decide(permuted).is_unsafe = result[r].is_unsafe
        /\ Decide(permuted).max_score = result[r].unsafe_score

\* A decided list whose first two concepts differ in label and in score.
C19_Witness ==
  \E r \in Requests :
    /\ Decided(r)
    /\ Len(response[r].concepts) >= 2
    /\ ConceptScore(response[r].concepts[1]) < ConceptScore(response[r].concepts[2])
    /\ ConceptName(response[r].concepts[1]) # ConceptName(response[r].concepts[2])
    /\ Cardinality(Reorderings(response[r].concepts)) >= 2

====
